---- MODULE Spec2Model ----
(* Name binding in notebooks/iclr2017.ipynb.                                *)
(*                                                                          *)
(* The notebook is a list of code cells; a cell is a list of top-level      *)
(* Python statements.  The state is the global namespace of the kernel the  *)
(* cells are run in, top to bottom, once each (the run "kernel"), next to   *)
(* the namespace of a kernel started empty for the current cell alone (the  *)
(* run "fresh").  A statement reads names and binds names; reading an       *)
(* unbound name raises NameError, repeating a list by a non-integer raises  *)
(* TypeError, and an exception ends the cell.  Calls into tensorflow,       *)
(* edward, numpy and keras return an object of the constructed class; what  *)
(* happens inside those libraries is not part of the notebook.              *)
EXTENDS Integers, Sequences, FiniteSets, TLC

VARIABLES cell, kernel, fresh, status

vars == <<cell, kernel, fresh, status>>

\* Iterations taken of a `for ... in range(k)` loop: min(k, MaxIter).
MaxIter == 2

Min(a, b) == IF a < b THEN a ELSE b

----------------------------------------------------------------------------
(* Statements.                                                              *)
(*   kind   "import" | "assign" | "def" | "expr" | "for" | "setitem" |      *)
(*          "repeat" (name = [[0] * a] * b)                                 *)
(*   tgt    the names the statement binds (setitem: the list written into)  *)
(*   reads  the global names its expressions read (builtins left out)       *)
(*   calls  the notebook-defined functions it calls while it runs           *)
(*   ints   the names used as a number by a Python operator or builtin:     *)
(*          the count of a list repetition `[..] * n`, float(n), `/ n`      *)
(*   cls    the class of the object bound                                   *)
(*   num    the value of an integer literal / the range(k) of a for         *)
(*   items  the elements of a list-of-integers literal                      *)
(*   shape  the shape list written in the statement, each dimension a       *)
(*          literal (L) or a name (V); None is written L(0)                 *)
(*   free   def: the global names the function body reads when called       *)
(*   cntNm, cntIx   for: range(cntNm) or range(cntNm[cntIx]);               *)
(*          setitem: the indices of  tgt[cntNm][cntIx] = ...;              *)
(*          repeat: the counts of  [[0] * cntNm] * cntIx                    *)
(*   body   for: number of statements in the loop body                      *)
(*   back   last statement of a loop body: index of its `for`               *)
(*   depth  for: 1 for an outer loop, 2 for a loop nested in one            *)

Stmt0 ==
  [kind |-> "assign", tgt |-> {}, reads |-> {}, calls |-> {}, ints |-> {},
   cls |-> "", num |-> 0, items |-> <<>>, shape |-> <<>>, free |-> {},
   cntNm |-> "", cntIx |-> "", body |-> 0, back |-> 0, depth |-> 0]

L(k) == [nm |-> "", k |-> k]
V(n) == [nm |-> n, k |-> 0]

Import(names, c) == [Stmt0 EXCEPT !.kind = "import", !.tgt = names, !.cls = c]
IntLit(n, k) == [Stmt0 EXCEPT !.tgt = {n}, !.cls = "int", !.num = k]
ListLit(n, xs) == [Stmt0 EXCEPT !.tgt = {n}, !.cls = "list", !.items = xs]
New(n, c, rd, sh) == [Stmt0 EXCEPT !.tgt = {n}, !.cls = c, !.reads = rd, !.shape = sh]
Def(n, fr) == [Stmt0 EXCEPT !.kind = "def", !.tgt = {n}, !.cls = "function", !.free = fr]
Expr(rd) == [Stmt0 EXCEPT !.kind = "expr", !.reads = rd]

\* Figure 1. Beta-Bernoulli program.
Fig1 == <<
  Import({"tf"}, "module"),
  Import({"Bernoulli", "Beta"}, "class"),
  New("theta", "Beta", {"Beta"}, <<>>),
  New("x", "Bernoulli", {"Bernoulli", "tf", "theta"}, <<L(50)>>) >>

\* Figure 2. Variational auto-encoder.
Fig2 == <<
  Import({"tf"}, "module"),
  Import({"Bernoulli", "Normal"}, "class"),
  Import({"Dense"}, "class"),
  IntLit("N", 55000),
  IntLit("d", 50),
  New("z", "Normal", {"Normal", "tf", "N", "d"}, <<V("N"), V("d")>>),
  New("h", "Tensor", {"Dense", "z"}, <<>>),
  New("x", "Bernoulli", {"Bernoulli", "Dense", "h"}, <<>>),
  New("qx", "Tensor", {"tf", "N"}, <<V("N"), L(784)>>),
  New("qh", "Tensor", {"Dense", "qx"}, <<>>),
  New("qz", "Normal", {"Normal", "Dense", "d", "qh"}, <<>>) >>

\* Figure 3. Bayesian recurrent neural network.
Fig3 == <<
  Import({"ed"}, "module"),
  Import({"tf"}, "module"),
  Import({"Normal"}, "class"),
  IntLit("H", 50),
  IntLit("D", 10),
  Def("rnn_cell", {"tf", "ed", "Wh", "Wx", "bh"}),
  New("Wh", "Normal", {"Normal", "tf", "H"}, <<V("H"), V("H")>>),
  New("Wx", "Normal", {"Normal", "tf", "D", "H"}, <<V("D"), V("H")>>),
  New("Wy", "Normal", {"Normal", "tf", "H"}, <<V("H"), L(1)>>),
  New("bh", "Normal", {"Normal", "tf", "H"}, <<V("H")>>),
  New("by", "Normal", {"Normal", "tf"}, <<L(1)>>),
  New("x", "Tensor", {"tf", "D"}, <<L(0), V("D")>>),
  [New("h", "Tensor", {"tf", "rnn_cell", "x", "H"}, <<>>)
     EXCEPT !.calls = {"rnn_cell"}],
  New("y", "Normal", {"Normal", "tf", "h", "Wy", "by"}, <<>>) >>

\* Figure 5. Hierarchical model (mixture of Gaussians).
Fig5 == <<
  Import({"tf"}, "module"),
  Import({"Categorical", "Normal"}, "class"),
  IntLit("N", 10000),
  IntLit("D", 2),
  IntLit("K", 5),
  New("beta", "Normal", {"Normal", "tf", "K", "D"}, <<V("K"), V("D")>>),
  New("z", "Categorical", {"Categorical", "tf", "N", "K"}, <<V("N"), V("K")>>),
  New("x", "Normal", {"Normal", "tf", "beta", "z", "N", "D"}, <<V("N"), V("D")>>) >>

\* Figure 6 (left). Variational inference.
Fig6Left == <<
  Import({"ed"}, "module"),
  Import({"np"}, "module"),
  Import({"tf"}, "module"),
  Import({"Categorical", "Normal"}, "class"),
  New("x_train", "ndarray", {"np", "N", "D"}, <<V("N"), V("D")>>),
  New("qbeta", "Normal", {"Normal", "tf", "K", "D"}, <<V("K"), V("D")>>),
  New("qz", "Categorical", {"Categorical", "tf", "N", "K"}, <<V("N"), V("K")>>),
  New("inference", "VariationalInference",
      {"ed", "beta", "qbeta", "z", "qz", "x", "x_train"}, <<>>) >>

\* Figure 6 (right) with the data bound to x instead of x_train.
Fig6RightDataAsX == <<
  Import({"ed"}, "module"),
  Import({"np"}, "module"),
  Import({"tf"}, "module"),
  Import({"Empirical"}, "class"),
  New("x", "ndarray", {"np", "N", "D"}, <<V("N"), V("D")>>),
  IntLit("T", 10000),
  New("qbeta", "Empirical", {"Empirical", "tf", "T", "K", "D"}, <<V("T"), V("K"), V("D")>>),
  New("qz", "Empirical", {"Empirical", "tf", "T", "N"}, <<V("T"), V("N")>>) >>

\* Figure 6 (right). Monte Carlo.
Fig6Right == <<
  Import({"ed"}, "module"),
  Import({"np"}, "module"),
  Import({"tf"}, "module"),
  Import({"Empirical"}, "class"),
  New("x_train", "ndarray", {"np", "N", "D"}, <<V("N"), V("D")>>),
  IntLit("T", 10000),
  New("qbeta", "Empirical", {"Empirical", "tf", "T", "K", "D"}, <<V("T"), V("K"), V("D")>>),
  New("qz", "Empirical", {"Empirical", "tf", "T", "N"}, <<V("T"), V("N")>>) >>

\* Figure 7. Generative adversarial network.
Fig7 == <<
  Import({"ed"}, "module"),
  Import({"np"}, "module"),
  Import({"tf"}, "module"),
  Import({"Normal"}, "class"),
  Import({"Dense"}, "class"),
  IntLit("N", 55000),
  IntLit("d", 50),
  Def("generative_network", {"Dense"}),
  Def("discriminative_network", {"Dense"}),
  New("x_train", "ndarray", {"np", "N"}, <<V("N"), L(784)>>),
  New("eps", "Normal", {"Normal", "tf", "N", "d"}, <<V("N"), V("d")>>),
  [New("x", "Tensor", {"generative_network", "eps"}, <<>>)
     EXCEPT !.calls = {"generative_network"}],
  New("inference", "GANInference",
      {"ed", "x", "x_train", "discriminative_network"}, <<>>) >>

\* Figure *. Variational EM.
VarEM == <<
  Import({"ed"}, "module"),
  Import({"np"}, "module"),
  Import({"tf"}, "module"),
  Import({"Categorical", "PointMass"}, "class"),
  New("x_train", "ndarray", {"np", "N", "D"}, <<V("N"), V("D")>>),
  New("qbeta", "PointMass", {"PointMass", "tf", "K", "D"}, <<V("K"), V("D")>>),
  New("qz", "Categorical", {"Categorical", "tf", "N", "K"}, <<V("N"), V("K")>>),
  New("inference_e", "VariationalInference",
      {"ed", "z", "qz", "x", "x_train", "beta", "qbeta"}, <<>>),
  New("inference_m", "MAP",
      {"ed", "beta", "qbeta", "x", "x_train", "z", "qz"}, <<>>),
  Expr({"inference_e"}),
  Expr({"inference_m"}),
  Expr({"tf"}),
  [Stmt0 EXCEPT !.kind = "for", !.tgt = {"_"}, !.cls = "int", !.num = 10000,
                !.body = 2, !.depth = 1],
  Expr({"inference_e"}),
  [Expr({"inference_m"}) EXCEPT !.back = 13] >>

\* Figure *. Data subsampling.
Subsample == <<
  Import({"ed"}, "module"),
  Import({"tf"}, "module"),
  Import({"Categorical", "Normal"}, "class"),
  IntLit("N", 10000),
  IntLit("M", 128),
  IntLit("D", 2),
  IntLit("K", 5),
  New("x_batch", "Tensor", {"tf", "M", "D"}, <<V("M"), V("D")>>),
  New("beta", "Normal", {"Normal", "tf", "K", "D"}, <<V("K"), V("D")>>),
  New("z", "Categorical", {"Categorical", "tf", "M", "K"}, <<V("M"), V("K")>>),
  New("x", "Normal", {"Normal", "tf", "beta", "z", "M", "D"}, <<V("M"), V("D")>>),
  New("qbeta", "Normal", {"Normal", "tf", "K", "D"}, <<V("K"), V("D")>>),
  New("qz", "Categorical", {"Categorical", "tf", "M", "D"}, <<V("M"), V("D")>>),
  New("inference", "VariationalInference",
      {"ed", "beta", "qbeta", "z", "qz", "x", "x_batch"}, <<>>),
  [Expr({"inference", "x", "N", "M", "z"}) EXCEPT !.ints = {"N", "M"}] >>

\* Figure 9. Bayesian logistic regression with Hamiltonian Monte Carlo.
Fig9 == <<
  Import({"ed"}, "module"),
  Import({"np"}, "module"),
  Import({"tf"}, "module"),
  Import({"Bernoulli", "Empirical", "Normal"}, "class"),
  IntLit("N", 581012),
  IntLit("D", 54),
  IntLit("T", 100),
  New("x_data", "ndarray", {"np", "N", "D"}, <<V("N"), V("D")>>),
  New("y_data", "ndarray", {"np", "N"}, <<V("N")>>),
  New("x", "Variable", {"tf", "x_data"}, <<>>),
  New("beta", "Normal", {"Normal", "tf", "D"}, <<V("D")>>),
  New("y", "Bernoulli", {"Bernoulli", "ed", "x", "beta"}, <<>>),
  New("qbeta", "Empirical", {"Empirical", "tf", "T", "D"}, <<V("T"), V("D")>>),
  New("inference", "HMC", {"ed", "beta", "qbeta", "y", "y_data"}, <<>>),
  [Expr({"inference", "N"}) EXCEPT !.ints = {"N"}] >>

\* Figure 10 without its own `H = 256`.
Fig10WithoutH == <<
  Import({"tf"}, "module"),
  Import({"Bernoulli", "Normal"}, "class"),
  IntLit("N", 1000),
  IntLit("D", 528),
  New("W_0", "Normal", {"Normal", "tf", "D", "H"}, <<V("D"), V("H")>>),
  New("W_1", "Normal", {"Normal", "tf", "H"}, <<V("H"), L(1)>>),
  New("b_0", "Normal", {"Normal", "tf", "H"}, <<V("H")>>),
  New("b_1", "Normal", {"Normal", "tf"}, <<L(1)>>),
  New("x", "Tensor", {"tf", "N", "D"}, <<V("N"), V("D")>>),
  New("y", "Bernoulli", {"Bernoulli", "tf", "x", "W_0", "b_0", "W_1", "b_1"}, <<>>) >>

\* Figure 10. Bayesian neural network for classification.
Fig10 == <<
  Import({"tf"}, "module"),
  Import({"Bernoulli", "Normal"}, "class"),
  IntLit("N", 1000),
  IntLit("D", 528),
  IntLit("H", 256),
  New("W_0", "Normal", {"Normal", "tf", "D", "H"}, <<V("D"), V("H")>>),
  New("W_1", "Normal", {"Normal", "tf", "H"}, <<V("H"), L(1)>>),
  New("b_0", "Normal", {"Normal", "tf", "H"}, <<V("H")>>),
  New("b_1", "Normal", {"Normal", "tf"}, <<L(1)>>),
  New("x", "Tensor", {"tf", "N", "D"}, <<V("N"), V("D")>>),
  New("y", "Bernoulli", {"Bernoulli", "tf", "x", "W_0", "b_0", "W_1", "b_1"}, <<>>) >>

\* Figure 11. Latent Dirichlet allocation.
Fig11 == <<
  Import({"tf"}, "module"),
  Import({"Categorical", "Dirichlet"}, "class"),
  IntLit("D", 4),
  ListLit("N", <<11502, 213, 1523, 1351>>),
  IntLit("K", 10),
  IntLit("V", 100000),
  New("theta", "Dirichlet", {"Dirichlet", "tf", "D", "K"}, <<V("D"), V("K")>>),
  New("phi", "Dirichlet", {"Dirichlet", "tf", "K", "V"}, <<V("K"), V("V")>>),
  [Stmt0 EXCEPT !.kind = "repeat", !.tgt = {"z"}, !.cls = "list",
                !.reads = {"N", "D"}, !.ints = {"N", "D"},
                !.cntNm = "N", !.cntIx = "D"],
  [Stmt0 EXCEPT !.kind = "repeat", !.tgt = {"w"}, !.cls = "list",
                !.reads = {"N", "D"}, !.ints = {"N", "D"},
                !.cntNm = "N", !.cntIx = "D"],
  [Stmt0 EXCEPT !.kind = "for", !.tgt = {"d"}, !.cls = "int", !.reads = {"D"},
                !.cntNm = "D", !.body = 3, !.depth = 1],
  [Stmt0 EXCEPT !.kind = "for", !.tgt = {"n"}, !.cls = "int",
                !.reads = {"N", "d"}, !.cntNm = "N", !.cntIx = "d",
                !.body = 2, !.depth = 2, !.back = 11],
  [Stmt0 EXCEPT !.kind = "setitem", !.tgt = {"z"}, !.cls = "Categorical",
                !.reads = {"z", "d", "n", "Categorical", "theta"},
                !.cntNm = "d", !.cntIx = "n"],
  [Stmt0 EXCEPT !.kind = "setitem", !.tgt = {"w"}, !.cls = "Categorical",
                !.reads = {"w", "d", "n", "Categorical", "phi", "z"},
                !.cntNm = "d", !.cntIx = "n", !.back = 12] >>

\* Figure 12. Gaussian matrix factorization.
Fig12 == <<
  Import({"tf"}, "module"),
  Import({"Normal"}, "class"),
  IntLit("N", 10),
  IntLit("M", 10),
  IntLit("K", 5),
  New("U", "Normal", {"Normal", "tf", "M", "K"}, <<V("M"), V("K")>>),
  New("V", "Normal", {"Normal", "tf", "N", "K"}, <<V("N"), V("K")>>),
  New("Y", "Normal", {"Normal", "tf", "U", "V", "N", "M"}, <<V("N"), V("M")>>) >>

\* Figure 13. Dirichlet process mixture model.
Fig13 == <<
  Import({"tf"}, "module"),
  Import({"DirichletProcess", "Normal"}, "class"),
  IntLit("N", 1000),
  IntLit("D", 5),
  New("dp", "DirichletProcess", {"DirichletProcess", "Normal", "tf", "D"}, <<V("D")>>),
  New("mu", "Tensor", {"dp", "N"}, <<>>),
  New("x", "Normal", {"Normal", "loc", "tf", "N", "D"}, <<V("N"), V("D")>>) >>

\* The code cells of the notebook, top to bottom.
Cells == <<Fig1, Fig2, Fig3, Fig5, Fig6Left, Fig6Right, Fig7, VarEM,
           Subsample, Fig9, Fig10, Fig11, Fig12, Fig13>>

NumCells == Len(Cells)

\* Positions of the cells the properties speak about.
Fig5Cell == 4
Fig6LeftCell == 5
Fig6RightCell == 6
VarEMCell == 8
Fig10Cell == 11
Fig11Cell == 12
Fig13Cell == 14

\* Positions of `inference_e = ...` and `inference_m = ...` in VarEM.
InferenceEStmt == 8
InferenceMStmt == 9

Names ==
  UNION { UNION { Cells[c][i].tgt \cup Cells[c][i].reads \cup Cells[c][i].free :
                    i \in DOMAIN Cells[c] } : c \in 1..NumCells }

----------------------------------------------------------------------------
(* Objects and runs.                                                        *)
(* An object records its class, its integer value or elements, its shape,   *)
(* a function's free names, the statements (deps) that created the objects  *)
(* it was built from, for a list of rows the heap rows it refers to, and    *)
(* the statement <<cell, index>> that created it (at).                      *)

Unbound ==
  [cls |-> "unbound", num |-> 0, items |-> <<>>, shape |-> <<>>, free |-> {},
   deps |-> {}, rows |-> <<>>, at |-> <<0, 0>>]

Zero == [Unbound EXCEPT !.cls = "int"]

\* A kernel before any statement has run.
EmptyRun ==
  [ns |-> [n \in Names |-> Unbound], pc |-> 1, err |-> "ok",
   loops |-> <<0, 0>>, heap |-> <<>>]

Bound(ns, n) == ns[n].cls # "unbound"

\* The global names statement s looks up: its own, and those of the bodies
\* of the notebook functions it calls.
Needed(ns, s) ==
  s.reads \cup UNION { ns[f].free : f \in { g \in s.calls : Bound(ns, g) } }

DimVal(ns, d) == IF d.nm = "" THEN d.k ELSE ns[d.nm].num

\* The object statement s of cell c creates in run r.
Value(r, c, s) ==
  [cls |-> s.cls, num |-> s.num, items |-> s.items,
   shape |-> [i \in 1..Len(s.shape) |-> DimVal(r.ns, s.shape[i])],
   free |-> s.free,
   deps |-> { r.ns[n].at : n \in Needed(r.ns, s) },
   rows |-> <<>>,
   at |-> <<c, r.pc>>]

\* name = object, for every name the statement binds.
Bind(ns, s, v) == [n \in Names |-> IF n \in s.tgt THEN v ELSE ns[n]]

\* Control passes to the next statement, or from the last statement of a
\* loop body back to its `for` for the next iteration.
Advance(r, c, s) ==
  IF s.back = 0
  THEN [r EXCEPT !.pc = @ + 1]
  ELSE [r EXCEPT !.pc = s.back, !.loops[Cells[c][s.back].depth] = @ + 1]

\* range(k): the literal, the integer bound to a name, or an element of the
\* list bound to a name.
Count(ns, s) ==
  IF s.cntNm = "" THEN s.num
  ELSE IF s.cntIx = "" THEN ns[s.cntNm].num
  ELSE ns[s.cntNm].items[ns[s.cntIx].num + 1]

RaisesType(ns, s) ==
  \/ \E n \in s.ints : ns[n].cls # "int"
  \/ \E f \in s.calls : ns[f].cls # "function"
  \/ s.kind = "for" /\ s.cntNm # "" /\ s.cntIx = "" /\ ns[s.cntNm].cls # "int"
  \/ s.kind = "for" /\ s.cntIx # ""
       /\ (ns[s.cntNm].cls # "list" \/ ns[s.cntIx].cls # "int")
  \/ s.kind = "setitem" /\ \E n \in s.tgt : ns[n].cls # "list"

ExecFor(r, c, s) ==
  LET i == r.loops[s.depth]
  IN  IF i < Min(Count(r.ns, s), MaxIter)
      THEN [r EXCEPT !.ns = Bind(r.ns, s, [Value(r, c, s) EXCEPT !.num = i]),
                     !.pc = @ + 1]
      ELSE Advance([r EXCEPT !.loops[s.depth] = 0, !.pc = @ + s.body], c, s)

\* name = [[0] * a] * b : one row of a zeros, and a list of b references to it.
ExecRepeat(r, c, s) ==
  LET row == [i \in 1..r.ns[s.cntNm].num |-> Zero]
      id == Len(r.heap) + 1
      v == [Value(r, c, s) EXCEPT !.rows = [i \in 1..r.ns[s.cntIx].num |-> id]]
  IN  Advance([r EXCEPT !.heap = Append(@, row), !.ns = Bind(r.ns, s, v)], c, s)

\* name[a][b] = object : written into the row that name[a] refers to.
ExecSetItem(r, c, s) ==
  LET t == CHOOSE n \in s.tgt : TRUE
      id == r.ns[t].rows[r.ns[s.cntNm].num + 1]
      elems == { (r.heap[r.ns[m].rows[r.ns[s.cntNm].num + 1]][r.ns[s.cntIx].num + 1]).at :
                   m \in { k \in s.reads \ s.tgt : r.ns[k].cls = "list" } }
      v == [Value(r, c, s) EXCEPT !.deps = @ \cup elems]
  IN  Advance([r EXCEPT !.heap[id][r.ns[s.cntIx].num + 1] = v], c, s)

\* Run r executes the statement at its pc in cell c.
Exec(r, c) ==
  LET s == Cells[c][r.pc]
  IN  IF \E n \in Needed(r.ns, s) : ~Bound(r.ns, n)
      THEN [r EXCEPT !.err = "NameError"]
      ELSE IF RaisesType(r.ns, s)
      THEN [r EXCEPT !.err = "TypeError"]
      ELSE CASE s.kind = "for" -> ExecFor(r, c, s)
             [] s.kind = "repeat" -> ExecRepeat(r, c, s)
             [] s.kind = "setitem" -> ExecSetItem(r, c, s)
             [] s.kind = "expr" -> Advance(r, c, s)
             [] OTHER -> Advance([r EXCEPT !.ns = Bind(r.ns, s, Value(r, c, s))], c, s)

\* The run has left the cell: past its last statement, or by an exception.
Finished(r, c) == r.pc > Len(Cells[c]) \/ r.err # "ok"

----------------------------------------------------------------------------
Init ==
  /\ cell = 1
  /\ kernel = EmptyRun
  /\ fresh = EmptyRun
  /\ status = [c \in 1..NumCells |-> "pending"]

\* The shared kernel executes the next statement of the current cell.
KernelStep ==
  /\ cell <= NumCells
  /\ ~Finished(kernel, cell)
  /\ kernel' = Exec(kernel, cell)
  /\ UNCHANGED <<cell, fresh, status>>

\* The kernel started for the current cell alone executes its next statement.
FreshStep ==
  /\ cell <= NumCells
  /\ ~Finished(fresh, cell)
  /\ fresh' = Exec(fresh, cell)
  /\ UNCHANGED <<cell, kernel, status>>

\* Both runs have left the cell; the next cell is run in the shared kernel,
\* which keeps its namespace, and in a new empty kernel.
NextCell ==
  /\ cell <= NumCells
  /\ Finished(kernel, cell)
  /\ Finished(fresh, cell)
  /\ status' = [status EXCEPT ![cell] = kernel.err]
  /\ cell' = cell + 1
  /\ kernel' = [kernel EXCEPT !.pc = 1, !.err = "ok", !.loops = <<0, 0>>]
  /\ fresh' = EmptyRun

Next == KernelStep \/ FreshStep \/ NextCell

Spec == Init /\ [][Next]_vars

----------------------------------------------------------------------------
(* Properties.                                                              *)

\* The names cell c assigns at top level.
Targets(c) ==
  UNION { Cells[c][i].tgt :
            i \in { j \in DOMAIN Cells[c] : Cells[c][j].kind \notin {"setitem", "for"} } }

\* The names of the Figure 5 model are bound to the objects Figure 5 made:
\* N = 10000, D = 2, K = 5, and x the Normal built from beta and z.
Fig5Model == {"N", "D", "K", "beta", "z", "x"}

Fig5Bound(ns) ==
  /\ \A n \in Fig5Model : ns[n].at[1] = Fig5Cell
  /\ ns["N"].num = 10000
  /\ ns["D"].num = 2
  /\ ns["K"].num = 5
  /\ ns["x"].cls = "Normal"
  /\ {ns["beta"].at, ns["z"].at} \subseteq ns["x"].deps

\* Both runs of the current cell are over.
CellOver == cell <= NumCells /\ Finished(kernel, cell) /\ Finished(fresh, cell)

\* C1: run top to bottom in one namespace, no cell raises an exception, and a
\* cell that is over has bound every name it assigns.
ClaimC1 ==
  cell <= NumCells =>
    /\ kernel.err = "ok"
    /\ Finished(kernel, cell) =>
         \A n \in Targets(cell) : kernel.ns[n].at[1] = cell

\* C2 as stated: a cell run alone never reads an unbound name (each name it
\* reads was assigned earlier in the cell), and ends with the same bindings
\* of the names it assigns as when run after the preceding cells.
ClaimC2 ==
  cell <= NumCells =>
    /\ fresh.err # "NameError"
    /\ CellOver =>
         /\ fresh.err = kernel.err
         /\ \A n \in Targets(cell) : kernel.ns[n] = fresh.ns[n]

\* The cells documented to use the model of Figure 5.
UsesFig5 == {Fig6LeftCell, Fig6RightCell, VarEMCell}

\* C2 amended: in every cell but the three that use the model of Figure 5,
\* each name a statement reads is bound by an earlier statement of the same
\* cell or by no cell at all, and the cell ends the same way run alone as run
\* after the preceding cells: the same outcome at the same statement and the
\* same object for every name bound in the run alone.
TheoremC2 ==
  (cell <= NumCells /\ cell \notin UsesFig5) =>
    /\ ~Finished(kernel, cell) =>
         \A n \in Needed(kernel.ns, Cells[cell][kernel.pc]) :
            Bound(kernel.ns, n) => kernel.ns[n].at[1] = cell
    /\ CellOver =>
         /\ fresh.err = kernel.err
         /\ fresh.pc = kernel.pc
         /\ \A n \in Names : Bound(fresh.ns, n) => kernel.ns[n] = fresh.ns[n]

\* Figure 10 is over in both runs, having bound y from its own W_0 and H.
WitnessC2 ==
  /\ cell = Fig10Cell
  /\ CellOver
  /\ kernel.err = "ok"
  /\ kernel.ns["y"].cls = "Bernoulli"
  /\ kernel.ns["H"].num = 256
  /\ fresh.ns["y"] = kernel.ns["y"]

\* C3: when the variational EM cell constructs inference_e and inference_m,
\* beta, z, x, N, D and K are still the objects of Figure 5.
ClaimC3 ==
  (cell = VarEMCell /\ kernel.err = "ok"
     /\ kernel.pc \in {InferenceEStmt, InferenceMStmt}) =>
    Fig5Bound(kernel.ns)

\* C4: throughout the Figure 6 (left) and Figure 6 (right) cells, before and
\* after each of their statements, N, D, K, beta, z and x are the objects of
\* Figure 5.
TheoremC4 ==
  cell \in {Fig6LeftCell, Fig6RightCell} => Fig5Bound(kernel.ns)

\* Figure 6 (right) has run to its end after Figure 6 (left).
WitnessC4 ==
  /\ cell = Fig6RightCell
  /\ Finished(kernel, cell)
  /\ kernel.err = "ok"
  /\ kernel.ns["qz"].cls = "Empirical"
  /\ kernel.ns["qz"].shape = <<10000, 10000>>
  /\ kernel.ns["inference"].at[1] = Fig6LeftCell
  /\ kernel.ns["x_train"].shape = <<10000, 2>>

\* The list bound to name has one row per document, no row shared.
SeparateRows(r, name) ==
  /\ r.ns[name].cls = "list"
  /\ Len(r.ns[name].rows) = r.ns["D"].num
  /\ \A a, b \in DOMAIN r.ns[name].rows :
        a # b => r.ns[name].rows[a] # r.ns[name].rows[b]

\* C5: once the Latent Dirichlet allocation cell is over, z and w have a row
\* of their own per document, z[d][n] is a Categorical built from theta and
\* w[d][n] a Categorical built from phi and z[d][n].
ClaimC5 ==
  (cell = Fig11Cell /\ Finished(kernel, cell)) =>
    /\ SeparateRows(kernel, "z")
    /\ SeparateRows(kernel, "w")
    /\ \A d \in 1..kernel.ns["D"].num :
         \A n \in 1..Min(kernel.ns["N"].items[d], MaxIter) :
           LET zdn == kernel.heap[kernel.ns["z"].rows[d]][n]
               wdn == kernel.heap[kernel.ns["w"].rows[d]][n]
           IN  /\ zdn.cls = "Categorical"
               /\ kernel.ns["theta"].at \in zdn.deps
               /\ wdn.cls = "Categorical"
               /\ {kernel.ns["phi"].at, zdn.at} \subseteq wdn.deps

\* C6: once the Dirichlet process cell is over, x is the Normal made by that
\* cell from mu, mu is made from dp, and x has shape [N, D].
ClaimC6 ==
  (cell = Fig13Cell /\ Finished(kernel, cell)) =>
    /\ kernel.ns["x"].cls = "Normal"
    /\ kernel.ns["x"].at[1] = Fig13Cell
    /\ kernel.ns["mu"].at \in kernel.ns["x"].deps
    /\ kernel.ns["dp"].at \in kernel.ns["mu"].deps
    /\ kernel.ns["x"].shape = <<kernel.ns["N"].num, kernel.ns["D"].num>>

TypeOK ==
  /\ cell \in 1..(NumCells + 1)
  /\ kernel.err \in {"ok", "NameError", "TypeError"}
  /\ fresh.err \in {"ok", "NameError", "TypeError"}

====
